---- MODULE Spec2Model ----
(***************************************************************************)
(* Model of the DPI-C noise generators of sv_test1:                        *)
(*   src/dpi/dpi_flicker_noise_batch.c  batch playback of a binary file    *)
(*   src/dpi/dpi_flicker_noise.c        streaming Voss-McCartney generator *)
(* The two files are alternative builds (both export dpi_flicker_noise),   *)
(* so each has its own specification.  A process is one simulation run     *)
(* with its own copy of the static state of the file it links.             *)
(*                                                                         *)
(* Doubles of the batch build are opaque values that are only copied, so   *)
(* they are modelled as integers.  Doubles of the streaming build are      *)
(* exact rationals with a fixed denominator (floating-point rounding is    *)
(* not modelled).                                                          *)
(***************************************************************************)
EXTENDS Integers, Sequences, FiniteSets, TLC

VARIABLES
    resource,   \* the file dpi/flicker_noise_batch.bin as the loader finds it
    batch,      \* process -> static state of dpi_flicker_noise_batch.c (+ I/O log)
    stream,     \* process -> static state of dpi_flicker_noise.c (+ libc rand state)
    thr,        \* thread -> its position and locals inside dpi_flicker_noise_batch
    tb          \* the simulation driver of tb_wrapper.cpp

vars == <<resource, batch, stream, thr, tb>>

Min(a, b) == IF a < b THEN a ELSE b

(***************************************************************************)
(* Bounds of the model                                                     *)
(***************************************************************************)
\* sampling calls made by the single process of the batch specification
MaxCalls == 8200
\* sampling calls made by each process of the two-process batch specification
MaxIdemCalls == 6
\* sampling calls made by the process of the streaming specification
MaxStreamCalls == 1030
\* sampling calls made by each process of the two-process streaming specification
MaxPairCalls == 24
\* sampling calls (through either entry point) of the shim specification
MaxShimCalls == 34
\* writes of current_index by the other thread that a thread inside lines
\* 149-154 lives through in the two-thread specification
MaxStall == 1
\* calls made by the second thread of the two-thread specification
MaxSecondCalls == 2
\* calls before the counter of the streaming generator wraps, and calls made
\* in the specification of the wrap
WrapLead == 600
MaxWrapCalls == 1200
\* calls before the shim's call counter overflows, and calls replayed and
\* made in the specification of the overflow
OverflowLead == 5
MaxLongCalls == 80

(***************************************************************************)
(* dpi_flicker_noise_batch.c                                               *)
(***************************************************************************)
MAX_SAMPLES == 4096

\* Value left in a buffer slot by a partial element read (C11 7.21.8.1p2: "if
\* a partial element is read, its value is indeterminate"); glibc copies the
\* trailing bytes into the slot, so the slot no longer holds 0.0.
PartialElement == -7

\* Sample i (0-based) of a resource file with the given content.
FileSample(content, i) ==
    CASE content = "ramp" -> i + 1
      [] content = "wave" -> ((i * 7) % 5) - 2
      [] OTHER -> 0

\* Sample counts of the resource files considered: empty, shorter than the
\* buffer, exactly the buffer, longer than the buffer.
FileSamples == {0, 1, 2, 100, MAX_SAMPLES - 1, MAX_SAMPLES, MAX_SAMPLES + 1}

\* The resource as fopen/fread find it.  "tail" is the value a partial
\* trailing element (file size not a multiple of 8) leaves in its slot:
\* 0 when there are no trailing bytes or the library leaves the slot alone.
Resources ==
    {[present |-> FALSE, samples |-> 0, tail |-> 0, content |-> "none"]}
    \cup [present : {TRUE}, samples : FileSamples,
          tail : {0, PartialElement}, content : {"ramp", "wave"}]

\* Static state at program start (lines 37-40; statics are zero-initialised)
\* together with the log of what the process did to the outside world.
BatchStart ==
    [preloaded_noise    |-> [i \in 0..(MAX_SAMPLES - 1) |-> 0],
     current_index      |-> 0,
     initialized        |-> 0,
     num_samples_loaded |-> 0,
     \* log: library calls and diagnostics
     n_fopen |-> 0, n_fread |-> 0, n_fclose |-> 0, handle_open |-> FALSE,
     n_error |-> 0, n_warning |-> 0, n_info |-> 0,
     \* log: sampling calls
     calls |-> 0, ret |-> 0, rd |-> -1, rd_loaded |-> 0, preloaded |-> FALSE,
     \* the shim dpi_flicker_noise: its static call_count (line 170) and the
     \* log of its diagnostic lines and of the calls it made
     call_count |-> 0, aborted |-> FALSE,
     n_call_log |-> 0, log_index |-> -1, log_value |-> 0, shim_invocations |-> 0]

\* Mutant: fread is asked for as many elements as the file holds instead of
\* MAX_SAMPLES (line 82).
fread_nocap(buf, res) ==
    [count |-> res.samples,
     buf   |-> [i \in 0..(MAX_SAMPLES - 1) |->
                  IF i < res.samples THEN FileSample(res.content, i) ELSE buf[i]]]

\* fread(preloaded_noise, sizeof(double), MAX_SAMPLES, f): the buffer after
\* the read and the number of complete elements read.
fread(buf, res) ==
    LET n == Min(res.samples, MAX_SAMPLES)
    IN  [count |-> n,
         buf   |-> [i \in 0..(MAX_SAMPLES - 1) |->
                      IF i < n THEN FileSample(res.content, i)
                      ELSE IF i = n /\ res.tail # 0 THEN res.tail
                      ELSE buf[i]]]

\* Mutant: the file-not-found path forgets "initialized = 1" (line 77).
init_flicker_noise_batch_noflag(g, res) ==
    IF ~res.present
    THEN [g EXCEPT !.n_fopen = @ + 1,
                   !.n_error = @ + 1,
                   !.preloaded_noise = [i \in 0..(MAX_SAMPLES - 1) |-> 0],
                   !.num_samples_loaded = MAX_SAMPLES]
    ELSE LET r == fread(g.preloaded_noise, res)
         IN  [g EXCEPT !.n_fopen = @ + 1,
                       !.n_fread = @ + 1,
                       !.n_fclose = @ + 1,
                       !.handle_open = FALSE,
                       !.preloaded_noise = r.buf,
                       !.num_samples_loaded = r.count,
                       !.n_warning = IF r.count < MAX_SAMPLES THEN @ + 1 ELSE @,
                       !.n_info = IF r.count < MAX_SAMPLES THEN @ ELSE @ + 1,
                       !.current_index = 0,
                       !.initialized = 1]

init_flicker_noise_batch(g, res) ==
    IF ~res.present
    THEN [g EXCEPT !.n_fopen = @ + 1,
                   !.n_error = @ + 1,
                   !.preloaded_noise = [i \in 0..(MAX_SAMPLES - 1) |-> 0],
                   !.num_samples_loaded = MAX_SAMPLES,
                   !.initialized = 1]
    ELSE LET r == fread(g.preloaded_noise, res)
         IN  [g EXCEPT !.n_fopen = @ + 1,
                       !.n_fread = @ + 1,
                       !.n_fclose = @ + 1,
                       !.handle_open = FALSE,
                       !.preloaded_noise = r.buf,
                       !.num_samples_loaded = r.count,
                       !.n_warning = IF r.count < MAX_SAMPLES THEN @ + 1 ELSE @,
                       !.n_info = IF r.count < MAX_SAMPLES THEN @ ELSE @ + 1,
                       !.current_index = 0,
                       !.initialized = 1]

\* Shared by the mutants of dpi_flicker_noise_batch below: lines 148-154 with
\* the wrap test replaced by the given one.
MutantServe(g1, wrap, oob) ==
    LET g2 == IF wrap THEN [g1 EXCEPT !.current_index = 0] ELSE g1
        i  == g2.current_index
        v  == IF i \in 0..(MAX_SAMPLES - 1) THEN g2.preloaded_noise[i] ELSE oob
    IN  [g2 EXCEPT !.current_index = i + 1,
                   !.ret = v, !.rd = i, !.rd_loaded = g2.num_samples_loaded,
                   !.calls = @ + 1]

\* Mutant: the wrap test is ">" instead of ">=" (line 149).
dpi_flicker_noise_batch_gt(g0, res, oob) ==
    LET g1 == IF g0.initialized = 0 THEN init_flicker_noise_batch(g0, res) ELSE g0
    IN  MutantServe(g1, g1.current_index > g1.num_samples_loaded, oob)

\* Mutant: the wrap limit is the buffer capacity instead of the number of
\* samples loaded (line 149).
dpi_flicker_noise_batch_cap(g0, res, oob) ==
    LET g1 == IF g0.initialized = 0 THEN init_flicker_noise_batch(g0, res) ELSE g0
    IN  MutantServe(g1, g1.current_index >= MAX_SAMPLES, oob)

\* Mutant: the loader is called on every call (the test of line 144 dropped).
dpi_flicker_noise_batch_reload(g0, res, oob) ==
    LET g1 == init_flicker_noise_batch(g0, res)
    IN  MutantServe(g1, g1.current_index >= g1.num_samples_loaded, oob)

\* Mutant: the test of line 144 is inverted.
dpi_flicker_noise_batch_inverted(g0, res, oob) ==
    LET g1 == IF g0.initialized # 0 THEN init_flicker_noise_batch(g0, res) ELSE g0
    IN  MutantServe(g1, g1.current_index >= g1.num_samples_loaded, oob)

\* Mutant: the wrap assigns to num_samples_loaded instead of current_index
\* (line 150).
dpi_flicker_noise_batch_wrongvar(g0, res, oob) ==
    LET g1 == IF g0.initialized = 0 THEN init_flicker_noise_batch(g0, res) ELSE g0
        g2 == IF g1.current_index >= g1.num_samples_loaded
              THEN [g1 EXCEPT !.num_samples_loaded = 0] ELSE g1
        i  == g2.current_index
        v  == IF i \in 0..(MAX_SAMPLES - 1) THEN g2.preloaded_noise[i] ELSE oob
    IN  [g2 EXCEPT !.current_index = i + 1,
                   !.ret = v, !.rd = i, !.rd_loaded = g2.num_samples_loaded,
                   !.calls = @ + 1]

\* One call of dpi_flicker_noise_batch.  oob is what a read outside the
\* buffer would yield (undefined behaviour).
dpi_flicker_noise_batch(g0, res, oob) ==
    LET g1 == IF g0.initialized = 0 THEN init_flicker_noise_batch(g0, res) ELSE g0
        g2 == IF g1.current_index >= g1.num_samples_loaded
              THEN [g1 EXCEPT !.current_index = 0] ELSE g1
        i  == g2.current_index
        v  == IF i \in 0..(MAX_SAMPLES - 1) THEN g2.preloaded_noise[i] ELSE oob
    IN  [g2 EXCEPT !.current_index = i + 1,
                   !.ret = v, !.rd = i, !.rd_loaded = g2.num_samples_loaded,
                   !.calls = @ + 1]

\* Number of calls of the shim that print a diagnostic line (line 174).
LOG_CALLS == 30

\* The range of int, the type of call_count (line 170).
INT_MAX == 2147483647
INT_MIN == -INT_MAX - 1

\* call_count++ with call_count == INT_MAX is a signed overflow, which the
\* language leaves undefined: the build wraps to INT_MIN, or traps and the
\* process aborts (-ftrapv, a sanitizer).
OverflowOutcomes == {"wrap", "trap"}

\* Mutant: the shim calls dpi_flicker_noise_batch twice and returns the
\* second value (line 171).
dpi_flicker_noise_shim_twice(g0, res, oob, ovf) ==
    LET g1     == dpi_flicker_noise_batch(dpi_flicker_noise_batch(g0, res, oob), res, oob)
        logged == g1.call_count < LOG_CALLS
    IN  [g1 EXCEPT !.n_call_log = IF logged THEN @ + 1 ELSE @,
                   !.log_index  = IF logged THEN g1.current_index - 1 ELSE @,
                   !.log_value  = IF logged THEN g1.ret ELSE @,
                   !.call_count = IF @ < INT_MAX THEN @ + 1
                                  ELSE IF ovf = "wrap" THEN INT_MIN ELSE @,
                   !.aborted    = g1.call_count = INT_MAX /\ ovf = "trap",
                   !.shim_invocations = @ + (g1.calls - g0.calls)]

\* One call of dpi_flicker_noise of the batch build (lines 169-181), the
\* wrapper around dpi_flicker_noise_batch.  ret stays the value returned to
\* the caller: the wrapper returns result unchanged.
dpi_flicker_noise_shim(g0, res, oob, ovf) ==
    LET g1     == dpi_flicker_noise_batch(g0, res, oob)
        logged == g1.call_count < LOG_CALLS
    IN  [g1 EXCEPT !.n_call_log = IF logged THEN @ + 1 ELSE @,
                   !.log_index  = IF logged THEN g1.current_index - 1 ELSE @,
                   !.log_value  = IF logged THEN g1.ret ELSE @,
                   !.call_count = IF @ < INT_MAX THEN @ + 1
                                  ELSE IF ovf = "wrap" THEN INT_MIN ELSE @,
                   !.aborted    = g1.call_count = INT_MAX /\ ovf = "trap",
                   !.shim_invocations = @ + (g1.calls - g0.calls)]

(***************************************************************************)
(* dpi_flicker_noise.c                                                     *)
(***************************************************************************)
N_SOURCES == 10
SEED == 42
\* TARGET_RMS 0.25 and RAW_RMS 1.757, in thousandths
TARGET_RMS_milli == 250
RAW_RMS_milli == 1757

\* The C library's generator, which the repository only calls: a linear
\* congruential generator with a 16-bit state (the library's own algorithm is
\* not part of the repository).  rand() advances the state and returns a
\* value in 0..RAND_MAX.
RAND_MAX == 32767
RandModulus == 65536
rand(next) ==
    LET n == (next * 25173 + 13849) % RandModulus
    IN  [next |-> n, value |-> n \div 2]

\* States the library's generator may be in when the first sampling call is
\* made (1 is the state of a program that never called srand).
RandStates == {1, 42, 12345}

\* x & y on naturals, bit by bit.
RECURSIVE BitAnd(_, _)
BitAnd(x, y) ==
    IF x = 0 \/ y = 0 THEN 0
    ELSE (IF x % 2 = 1 /\ y % 2 = 1 THEN 1 ELSE 0) + 2 * BitAnd(x \div 2, y \div 2)

\* 1UL << i, for the shift widths the code uses.
Shl1(i) == 2 ^ i

\* unsigned long sample_counter (line 44) is held as 16-bit limbs, least
\* significant first: the field sample_counter is the lowest limb and
\* sample_counter_hi the sequence of the higher ones, ULONG_BITS in all.
ULONG_BITS == 64
LimbBits == 16
LimbModulus == 2 ^ LimbBits
HighLimbs(w) == w \div LimbBits - 1

\* The len lowest limbs of the natural n.
RECURSIVE ToLimbs(_, _)
ToLimbs(n, len) ==
    IF len = 0 THEN <<>>
    ELSE <<n % LimbModulus>> \o ToLimbs(n \div LimbModulus, len - 1)

\* Mutant: the increment does not carry out of the lowest limb.
IncrLimbs_nocarry(c) == <<(Head(c) + 1) % LimbModulus>> \o Tail(c)

\* c + 1 in the width of c: the carry runs through the limbs and is dropped
\* after the last one (line 123, sample_counter++).
RECURSIVE IncrLimbs(_)
IncrLimbs(c) ==
    IF c = <<>> THEN <<>>
    ELSE IF Head(c) + 1 < LimbModulus
         THEN <<Head(c) + 1>> \o Tail(c)
         ELSE <<0>> \o IncrLimbs(Tail(c))

\* A source value v stands for the double v / RAND_MAX; a returned sample r
\* stands for r / (RAND_MAX * RAW_RMS_milli).
\* Mutant: the "- 1.0" of lines 59 and 112 is dropped.
Uniform_nooffset(r) == 2 * r

\* 2.0 * ((double)r / RAND_MAX) - 1.0
Uniform(r) == 2 * r - RAND_MAX

\* Static state at program start (lines 43-45), the library's generator state
\* and the log of the sampling calls.
StreamStart(r0) ==
    [noise_sources  |-> [i \in 0..(N_SOURCES - 1) |-> 0],
     sample_counter |-> 0,
     sample_counter_hi |-> [k \in 1..HighLimbs(ULONG_BITS) |-> 0],
     initialized    |-> 0,
     rand_next      |-> r0,
     \* log
     n_srand |-> 0, n_draws |-> 0,
     calls |-> 0, ret |-> 0, sum |-> 0, ctr_at_loop |-> 0, refreshed |-> {},
     draw_log |-> <<>>]

\* noise_sources[i] = 2.0 * ((double)rand() / RAND_MAX) - 1.0
DrawSource(s, i) ==
    LET r == rand(s.rand_next)
    IN  [s EXCEPT !.rand_next = r.next,
                  !.noise_sources[i] = Uniform(r.value),
                  !.n_draws = @ + 1,
                  !.draw_log = Append(@, i)]

\* The loop of lines 58-60, from index i on.
RECURSIVE InitLoop(_, _)
InitLoop(s, i) ==
    IF i < N_SOURCES THEN InitLoop(DrawSource(s, i), i + 1) ELSE s

\* Mutant: sample_counter is set to 1 instead of 0 (line 62).
init_flicker_noise_counter1(s) ==
    LET seeded == [s EXCEPT !.rand_next = SEED, !.n_srand = @ + 1]
    IN  [InitLoop(seeded, 0) EXCEPT !.sample_counter = 1,
                                !.sample_counter_hi = [k \in DOMAIN @ |-> 0],
                                !.initialized = 1]

\* Mutant: srand(SEED) is dropped (line 55).
init_flicker_noise_noseed(s) ==
    [InitLoop(s, 0) EXCEPT !.sample_counter = 0,
                           !.sample_counter_hi = [k \in DOMAIN @ |-> 0],
                           !.initialized = 1]

init_flicker_noise(s) ==
    LET seeded == [s EXCEPT !.rand_next = SEED, !.n_srand = @ + 1]
    IN  [InitLoop(seeded, 0) EXCEPT !.sample_counter = 0,
                                    !.sample_counter_hi = [k \in DOMAIN @ |-> 0],
                                    !.initialized = 1]

\* Mutant: the mask is (1UL << i) instead of (1UL << i) - 1 (line 110).
RefreshDue_nominus(counter, i) == BitAnd(counter, Shl1(i)) = 0

\* (sample_counter & ((1UL << i) - 1)) == 0, on the lowest limb
RefreshDue(counter, i) == BitAnd(counter, Shl1(i) - 1) = 0

\* The same test on the higher limbs hi of the counter and of the mask.
RefreshDueHigh(hi, i) ==
    LET m == Tail(ToLimbs(Shl1(i) - 1, 1 + Len(hi)))
    IN  \A k \in DOMAIN hi : BitAnd(hi[k], m[k]) = 0

\* The loop of lines 105-114, from index i on.
RECURSIVE RefreshLoop(_, _)
RefreshLoop(s, i) ==
    IF i < N_SOURCES
    THEN RefreshLoop(IF /\ RefreshDue(s.sample_counter, i)
                        /\ RefreshDueHigh(s.sample_counter_hi, i)
                     THEN [DrawSource(s, i) EXCEPT !.refreshed = @ \cup {i}]
                     ELSE s,
                     i + 1)
    ELSE s

\* The loop of lines 117-120: noise_sources[0] + ... + noise_sources[i-1].
RECURSIVE SumSources(_, _)
SumSources(src, i) ==
    IF i = 0 THEN 0 ELSE SumSources(src, i - 1) + src[i - 1]

\* Mutant: the test of line 98 is dropped, every call initialises.
dpi_flicker_noise_reinit(s0) ==
    LET s1  == init_flicker_noise([s0 EXCEPT !.draw_log = <<>>])
        s2  == RefreshLoop([s1 EXCEPT !.refreshed = {},
                                      !.ctr_at_loop = s1.sample_counter], 0)
        sum == SumSources(s2.noise_sources, N_SOURCES)
        ctr == IncrLimbs(<<s2.sample_counter>> \o s2.sample_counter_hi)
    IN  [s2 EXCEPT !.sample_counter = Head(ctr),
                   !.sample_counter_hi = Tail(ctr),
                   !.sum = sum,
                   !.ret = sum * TARGET_RMS_milli,
                   !.calls = @ + 1]

\* One call of dpi_flicker_noise (streaming build).  draw_log lists the
\* sources drawn by the call, in the order of the draws.
dpi_flicker_noise(s0) ==
    LET s00 == [s0 EXCEPT !.draw_log = <<>>]
        s1  == IF s00.initialized = 0 THEN init_flicker_noise(s00) ELSE s00
        s2  == RefreshLoop([s1 EXCEPT !.refreshed = {},
                                      !.ctr_at_loop = s1.sample_counter], 0)
        sum == SumSources(s2.noise_sources, N_SOURCES)
        ctr == IncrLimbs(<<s2.sample_counter>> \o s2.sample_counter_hi)
    IN  [s2 EXCEPT !.sample_counter = Head(ctr),
                   !.sample_counter_hi = Tail(ctr),
                   !.sum = sum,
                   !.ret = sum * TARGET_RMS_milli,
                   !.calls = @ + 1]

(***************************************************************************)
(* Batch build, one process: sequential sampling calls                     *)
(***************************************************************************)
Init ==
    /\ resource \in Resources
    /\ batch = [p \in {1} |-> BatchStart]
    /\ stream = <<>>
    /\ thr = <<>>
    /\ tb = <<>>

\* Process p calls dpi_flicker_noise_batch(), at most max times.
SampleBatch(p, max) ==
    /\ p \in DOMAIN batch
    /\ batch[p].calls < max
    /\ \E oob \in {0, PartialElement} :
         batch' = [batch EXCEPT ![p] = dpi_flicker_noise_batch(batch[p], resource, oob)]
    /\ UNCHANGED <<resource, stream, thr, tb>>

Sample == SampleBatch(1, MaxCalls)

Next == Sample

Spec == Init /\ [][Next]_vars

(***************************************************************************)
(* Batch build, two processes on the same resource: process 1 is fresh,    *)
(* process 2 runs the loader explicitly before its first sampling call     *)
(***************************************************************************)
InitIdem ==
    /\ resource \in Resources
    /\ batch = [p \in {1, 2} |-> BatchStart]
    /\ stream = <<>>
    /\ thr = <<>>
    /\ tb = <<>>

Preload ==
    /\ ~batch[2].preloaded
    /\ batch' = [batch EXCEPT ![2] =
                   [init_flicker_noise_batch(batch[2], resource) EXCEPT !.preloaded = TRUE]]
    /\ UNCHANGED <<resource, stream, thr, tb>>

SampleFresh == SampleBatch(1, MaxIdemCalls)

SamplePreloaded == batch[2].preloaded /\ SampleBatch(2, MaxIdemCalls)

NextIdem == Preload \/ SampleFresh \/ SamplePreloaded

SpecIdem == InitIdem /\ [][NextIdem]_vars

(***************************************************************************)
(* Batch build, one process calling through both entry points              *)
(***************************************************************************)
InitShim ==
    /\ resource \in Resources
    /\ batch = [p \in {1} |-> BatchStart]
    /\ stream = <<>>
    /\ thr = <<>>
    /\ tb = <<>>

\* The process calls dpi_flicker_noise() of the batch build.
ShimCall ==
    /\ batch[1].calls < MaxShimCalls
    /\ \E oob \in {0, PartialElement}, ovf \in OverflowOutcomes :
         batch' = [batch EXCEPT ![1] = dpi_flicker_noise_shim(batch[1], resource, oob, ovf)]
    /\ UNCHANGED <<resource, stream, thr, tb>>

DirectCall == SampleBatch(1, MaxShimCalls)

NextShim == ShimCall \/ DirectCall

SpecShim == InitShim /\ [][NextShim]_vars

(***************************************************************************)
(* Batch build, the shim's call counter about to overflow                  *)
(***************************************************************************)
\* The process after made >= LOG_CALLS calls of the shim and no direct call:
\* the first call loaded the buffer, the first LOG_CALLS calls were logged,
\* and call k read the index (k - 1) modulo the number of samples loaded.
\* calls and shim_invocations count the calls the model follows: LOG_CALLS
\* of the calls made so far and the ones made from this state on.
AfterShimCalls(res, made) ==
    LET g      == dpi_flicker_noise_shim(BatchStart, res, 0, "wrap")
        idx(k) == IF g.num_samples_loaded = 0 THEN 0
                  ELSE (k - 1) % g.num_samples_loaded
    IN  [g EXCEPT !.calls = LOG_CALLS,
                  !.shim_invocations = LOG_CALLS,
                  !.n_call_log = LOG_CALLS,
                  !.log_index = idx(LOG_CALLS),
                  !.log_value = g.preloaded_noise[idx(LOG_CALLS)],
                  !.call_count = made,
                  !.current_index = idx(made) + 1,
                  !.rd = idx(made),
                  !.ret = g.preloaded_noise[idx(made)]]

\* The process OverflowLead calls before call_count reaches INT_MAX.
NearOverflow(res) == AfterShimCalls(res, INT_MAX - OverflowLead)

InitShimLong ==
    /\ resource \in Resources
    /\ batch = [p \in {1} |-> NearOverflow(resource)]
    /\ stream = <<>>
    /\ thr = <<>>
    /\ tb = <<>>

\* The process calls dpi_flicker_noise() of the batch build, unless it has
\* aborted.
ShimCallLong ==
    /\ batch[1].calls < MaxLongCalls
    /\ ~batch[1].aborted
    /\ \E oob \in {0, PartialElement}, ovf \in OverflowOutcomes :
         batch' = [batch EXCEPT ![1] = dpi_flicker_noise_shim(batch[1], resource, oob, ovf)]
    /\ UNCHANGED <<resource, stream, thr, tb>>

NextShimLong == ShimCallLong

SpecShimLong == InitShimLong /\ [][NextShimLong]_vars

(***************************************************************************)
(* Batch build, statement by statement.  Threads of one process share the  *)
(* static state batch[1]; each thread has its position pc in               *)
(* dpi_flicker_noise_batch / init_flicker_noise_batch and its locals: f    *)
(* (the FILE pointer of line 61), idx (the value of current_index it read  *)
(* at line 154) and, as a log, stall (the writes other threads made to     *)
(* current_index since its wrap test) and ncalls (the calls it has         *)
(* returned from, counted up to MaxSecondCalls).                           *)
(* Unsynchronised access by two threads is a data race; the outcomes       *)
(* modelled are the interleavings of the statements.                       *)
(***************************************************************************)
ThreadStart ==
    [pc |-> "idle", f |-> "none", idx |-> -1, stall |-> 0, ncalls |-> 0]

\* Resources of the two-thread specification: empty, short, full.
ThreadResources ==
    {r \in Resources : r.present /\ r.samples \in {0, 2, MAX_SAMPLES}
                       /\ r.tail = 0 /\ r.content = "ramp"}

\* The locals after thread t wrote current_index and became own: every other
\* thread between its wrap test and its return has seen one more write.
AfterWrite(t, own) ==
    [u \in DOMAIN thr |->
        IF u = t THEN own
        ELSE IF thr[u].pc \in {"wrap", "read", "incr"}
             THEN [thr[u] EXCEPT !.stall = @ + 1]
             ELSE thr[u]]

\* Another thread still holds an open FILE.
OtherHandle(t) == \E u \in DOMAIN thr \ {t} : thr[u].f = "open"

\* line 144: if (!initialized)
Enter(t) ==
    /\ thr[t].pc = "idle"
    /\ thr' = [thr EXCEPT ![t].pc = IF batch[1].initialized = 0 THEN "fopen" ELSE "check"]
    /\ UNCHANGED <<resource, batch, stream, tb>>

\* lines 61-63: f = fopen(...); if (f == NULL)
Fopen(t) ==
    /\ thr[t].pc = "fopen"
    /\ IF resource.present
       THEN /\ thr' = [thr EXCEPT ![t].pc = "fread", ![t].f = "open"]
            /\ batch' = [batch EXCEPT ![1].n_fopen = @ + 1, ![1].handle_open = TRUE]
       ELSE /\ thr' = [thr EXCEPT ![t].pc = "absent", ![t].f = "NULL"]
            /\ batch' = [batch EXCEPT ![1].n_fopen = @ + 1]
    /\ UNCHANGED <<resource, stream, tb>>

\* lines 64-78: the diagnostic, memset, num_samples_loaded, initialized, return
Absent(t) ==
    /\ thr[t].pc = "absent"
    /\ batch' = [batch EXCEPT ![1].n_error = @ + 1,
                              ![1].preloaded_noise = [i \in 0..(MAX_SAMPLES - 1) |-> 0],
                              ![1].num_samples_loaded = MAX_SAMPLES,
                              ![1].initialized = 1]
    /\ thr' = [thr EXCEPT ![t].pc = "check", ![t].f = "none"]
    /\ UNCHANGED <<resource, stream, tb>>

\* line 82: num_samples_loaded = fread(...)
Fread(t) ==
    /\ thr[t].pc = "fread"
    /\ LET r == fread(batch[1].preloaded_noise, resource)
       IN  batch' = [batch EXCEPT ![1].n_fread = @ + 1,
                                  ![1].preloaded_noise = r.buf,
                                  ![1].num_samples_loaded = r.count]
    /\ thr' = [thr EXCEPT ![t].pc = "fclose"]
    /\ UNCHANGED <<resource, stream, tb>>

\* Mutant: a partial read returns early without closing the file.
Fclose_leak(t) ==
    /\ thr[t].pc = "fclose"
    /\ IF batch[1].num_samples_loaded < MAX_SAMPLES
       THEN /\ batch' = batch
            /\ thr' = [thr EXCEPT ![t].pc = "finish"]
       ELSE /\ batch' = [batch EXCEPT ![1].n_fclose = @ + 1,
                                      ![1].handle_open = OtherHandle(t)]
            /\ thr' = [thr EXCEPT ![t].pc = "finish", ![t].f = "closed"]
    /\ UNCHANGED <<resource, stream, tb>>

\* line 83: fclose(f)
Fclose(t) ==
    /\ thr[t].pc = "fclose"
    /\ batch' = [batch EXCEPT ![1].n_fclose = @ + 1,
                              ![1].handle_open = OtherHandle(t)]
    /\ thr' = [thr EXCEPT ![t].pc = "finish", ![t].f = "closed"]
    /\ UNCHANGED <<resource, stream, tb>>

\* lines 86-110: the warning or the information, current_index, initialized
Finish(t) ==
    /\ thr[t].pc = "finish"
    /\ batch' = [batch EXCEPT
                   ![1].n_warning = IF batch[1].num_samples_loaded < MAX_SAMPLES
                                    THEN @ + 1 ELSE @,
                   ![1].n_info = IF batch[1].num_samples_loaded < MAX_SAMPLES
                                 THEN @ ELSE @ + 1,
                   ![1].current_index = 0,
                   ![1].initialized = 1]
    /\ thr' = AfterWrite(t, [thr[t] EXCEPT !.pc = "check", !.f = "none"])
    /\ UNCHANGED <<resource, stream, tb>>

\* Mutant: the wrap test is ">" instead of ">=" (line 149).
Check_gt(t) ==
    /\ thr[t].pc = "check"
    /\ IF batch[1].current_index > batch[1].num_samples_loaded
       THEN thr' = [thr EXCEPT ![t].pc = "wrap"]
       ELSE thr' = [thr EXCEPT ![t].pc = "read"]
    /\ UNCHANGED <<resource, batch, stream, tb>>

\* line 149: if (current_index >= num_samples_loaded)
Check(t) ==
    /\ thr[t].pc = "check"
    /\ IF batch[1].current_index >= batch[1].num_samples_loaded
       THEN thr' = [thr EXCEPT ![t].pc = "wrap"]
       ELSE thr' = [thr EXCEPT ![t].pc = "read"]
    /\ UNCHANGED <<resource, batch, stream, tb>>

\* line 150: current_index = 0
Wrap(t) ==
    /\ thr[t].pc = "wrap"
    /\ batch' = [batch EXCEPT ![1].current_index = 0]
    /\ thr' = AfterWrite(t, [thr[t] EXCEPT !.pc = "read"])
    /\ UNCHANGED <<resource, stream, tb>>

\* line 154, first half: read current_index and preloaded_noise[current_index]
Read(t) ==
    /\ thr[t].pc = "read"
    /\ LET i == batch[1].current_index
       IN  /\ \E oob \in {0, PartialElement} :
                batch' = [batch EXCEPT
                            ![1].ret = IF i \in 0..(MAX_SAMPLES - 1)
                                       THEN batch[1].preloaded_noise[i] ELSE oob,
                            ![1].rd = i,
                            ![1].rd_loaded = batch[1].num_samples_loaded]
           /\ thr' = [thr EXCEPT ![t].pc = "incr", ![t].idx = i]
    /\ UNCHANGED <<resource, stream, tb>>

\* line 154, second half: current_index = (the value read) + 1; return
Incr(t) ==
    /\ thr[t].pc = "incr"
    /\ batch' = [batch EXCEPT ![1].current_index = thr[t].idx + 1]
    /\ thr' = AfterWrite(t, [thr[t] EXCEPT !.pc = "idle", !.idx = -1, !.stall = 0,
                                            !.ncalls = Min(@ + 1, MaxSecondCalls)])
    /\ UNCHANGED <<resource, stream, tb>>

\* One thread: the sequential program, statement by statement.
InitSteps ==
    /\ resource \in Resources
    /\ batch = [p \in {1} |-> BatchStart]
    /\ stream = <<>>
    /\ thr = [t \in {1} |-> ThreadStart]
    /\ tb = <<>>

NextSteps ==
    \/ \E t \in DOMAIN thr : Enter(t)
    \/ \E t \in DOMAIN thr : Fopen(t)
    \/ \E t \in DOMAIN thr : Absent(t)
    \/ \E t \in DOMAIN thr : Fread(t)
    \/ \E t \in DOMAIN thr : Fclose(t)
    \/ \E t \in DOMAIN thr : Finish(t)
    \/ \E t \in DOMAIN thr : Check(t)
    \/ \E t \in DOMAIN thr : Wrap(t)
    \/ \E t \in DOMAIN thr : Read(t)
    \/ \E t \in DOMAIN thr : Incr(t)

SpecSteps == InitSteps /\ [][NextSteps]_vars

\* Two threads calling dpi_flicker_noise_batch with no synchronisation, on a
\* resource that can be opened.  Thread 1 calls without end, thread 2 makes
\* at most MaxSecondCalls calls, at any time.  The scheduler lets a thread
\* that is between its wrap test and its return see at most MaxStall writes
\* of current_index by the other thread.
InitThreads ==
    /\ resource \in ThreadResources
    /\ batch = [p \in {1} |-> BatchStart]
    /\ stream = <<>>
    /\ thr = [t \in {1, 2} |-> ThreadStart]
    /\ tb = <<>>

StallBounded == \A u \in DOMAIN thr : thr[u].stall <= MaxStall

NextThreads ==
    \/ \E t \in DOMAIN thr : Enter(t) /\ (t = 1 \/ thr[t].ncalls < MaxSecondCalls)
    \/ \E t \in DOMAIN thr : Fopen(t)
    \/ \E t \in DOMAIN thr : Fread(t)
    \/ \E t \in DOMAIN thr : Fclose(t)
    \/ \E t \in DOMAIN thr : Finish(t) /\ StallBounded'
    \/ \E t \in DOMAIN thr : Check(t)
    \/ \E t \in DOMAIN thr : Wrap(t) /\ StallBounded'
    \/ \E t \in DOMAIN thr : Read(t)
    \/ \E t \in DOMAIN thr : Incr(t) /\ StallBounded'

SpecThreads == InitThreads /\ [][NextThreads]_vars

(***************************************************************************)
(* Claims about the batch build                                            *)
(***************************************************************************)
b1 == batch[1]

\* C1: with a resource of at least 4096 samples, the k-th sequential call
\* returns resource sample (k-1) mod 4096, read at that index and unmodified
\* (so the 4097th call returns what the 1st returned).
C1_InOrderWithWrap ==
    (resource.present /\ resource.samples >= MAX_SAMPLES /\ b1.calls >= 1)
        => /\ b1.rd = (b1.calls - 1) % MAX_SAMPLES
           /\ b1.ret = FileSample(resource.content, (b1.calls - 1) % MAX_SAMPLES)

\* C1 witness: the 4097th call on a full resource has returned sample 0 again.
C1_Witness ==
    /\ resource.present /\ resource.samples >= MAX_SAMPLES /\ resource.content = "ramp"
    /\ b1.calls = MAX_SAMPLES + 1
    /\ b1.ret = FileSample("ramp", 0) /\ b1.rd = 0

\* C2: with the resource absent every call returns 0.0 from inside the buffer
\* (nothing halts the run) and the missing-resource diagnostic has been
\* emitted exactly once, however many calls were made.
C2_AbsentZerosOneDiagnostic ==
    (~resource.present /\ b1.calls >= 1)
        => /\ b1.ret = 0
           /\ b1.rd \in 0..(MAX_SAMPLES - 1)
           /\ b1.n_error = 1

\* C2 witness: more than 4096 calls made without the resource.
C2_Witness ==
    ~resource.present /\ b1.calls = MAX_SAMPLES + 2 /\ b1.n_error = 1 /\ b1.ret = 0

\* C3: with a resource truncated to n samples, 0 < n < 4096, n samples are
\* loaded, the k-th call returns resource sample (k-1) mod n, and no slot at
\* index >= n is read.
C3_TruncatedPeriod ==
    (resource.present /\ 0 < resource.samples /\ resource.samples < MAX_SAMPLES
       /\ b1.calls >= 1)
        => /\ b1.num_samples_loaded = resource.samples
           /\ b1.rd = (b1.calls - 1) % resource.samples
           /\ b1.rd < resource.samples
           /\ b1.ret = FileSample(resource.content, (b1.calls - 1) % resource.samples)

\* C3 witness: the 101st call on a 100-sample resource (with trailing bytes)
\* has returned sample 0 again.
C3_Witness ==
    /\ resource.present /\ resource.samples = 100 /\ resource.content = "ramp"
    /\ resource.tail # 0
    /\ b1.calls = 101 /\ b1.rd = 0 /\ b1.ret = FileSample("ramp", 0)

\* C4 (as claimed): for every load outcome, every read of the buffer is at an
\* index with 0 <= index < num_samples_loaded.
C4_ReadBelowLoaded ==
    b1.calls >= 1 => (0 <= b1.rd /\ b1.rd < b1.rd_loaded)

\* C5: once the first sampling call has returned, initialized is set and the
\* resource has been opened exactly once and read at most once, whatever the
\* outcome of the load and however many calls follow.
C5_LoadAttemptedOnce ==
    b1.calls >= 1
        => /\ b1.initialized = 1
           /\ b1.n_fopen = 1
           /\ b1.n_fread = (IF resource.present THEN 1 ELSE 0)

\* C5 witness: many calls after a failed open, still one attempt.
C5_Witness ==
    ~resource.present /\ b1.calls = 3 /\ b1.n_fopen = 1 /\ b1.initialized = 1

\* C9 (as claimed): when the load yields zero samples, every call reads inside
\* the buffer and returns 0.0.
C9_EmptyReturnsZero ==
    (resource.present /\ resource.samples = 0 /\ b1.calls >= 1)
        => /\ b1.num_samples_loaded = 0
           /\ b1.rd \in 0..(MAX_SAMPLES - 1)
           /\ b1.ret = 0

\* C10: on the same resource, the k-th value returned to a fresh process
\* equals the k-th value returned to a process that ran the loader explicitly
\* before its first call.
C10_PreloadSameSequence ==
    (DOMAIN batch = {1, 2} /\ batch[2].preloaded /\ batch[1].calls = batch[2].calls)
        => batch[1].ret = batch[2].ret

\* C10 witness: both processes have made the same number of calls, past the
\* wrap of a 2-sample resource, and returned a loaded sample.
C10_Witness ==
    /\ DOMAIN batch = {1, 2} /\ batch[2].preloaded
    /\ resource.present /\ resource.samples = 2 /\ resource.content = "ramp"
    /\ batch[1].calls = 4 /\ batch[2].calls = 4
    /\ batch[1].ret = 2 /\ batch[2].ret = 2

(***************************************************************************)
(* Streaming build, one process: sequential sampling calls                 *)
(***************************************************************************)
InitStream ==
    /\ resource = [present |-> FALSE, samples |-> 0, tail |-> 0, content |-> "none"]
    /\ batch = <<>>
    /\ stream \in [{1} -> {StreamStart(r) : r \in RandStates}]
    /\ thr = <<>>
    /\ tb = <<>>

\* Process p calls dpi_flicker_noise(), at most max times.
SampleStream(p, max) ==
    /\ p \in DOMAIN stream
    /\ stream[p].calls < max
    /\ stream' = [stream EXCEPT ![p] = dpi_flicker_noise(stream[p])]
    /\ UNCHANGED <<resource, batch, thr, tb>>

StreamCall == SampleStream(1, MaxStreamCalls)

NextStream == StreamCall

SpecStream == InitStream /\ [][NextStream]_vars

(***************************************************************************)
(* Streaming build, the counter about to wrap                              *)
(***************************************************************************)
\* The generator WrapLead calls before sample_counter wraps, for an unsigned
\* long of w bits.  The 2^w - WrapLead calls that lead here are not replayed:
\* the sources are draws of the library's generator in a state r, and the
\* logs count from this state on.
NearWrap(r, w) ==
    [InitLoop(StreamStart(r), 0) EXCEPT
        !.initialized = 1, !.n_srand = 1,
        !.sample_counter = LimbModulus - WrapLead,
        !.sample_counter_hi = [k \in 1..HighLimbs(w) |-> LimbModulus - 1]]

InitWrap ==
    /\ resource = [present |-> FALSE, samples |-> 0, tail |-> 0, content |-> "none"]
    /\ batch = <<>>
    /\ stream \in [{1} -> {NearWrap(r, w) : r \in RandStates, w \in {32, ULONG_BITS}}]
    /\ thr = <<>>
    /\ tb = <<>>

WrapCall == SampleStream(1, MaxWrapCalls)

NextWrap == WrapCall

SpecWrap == InitWrap /\ [][NextWrap]_vars

(***************************************************************************)
(* Streaming build, two freshly started processes                          *)
(***************************************************************************)
InitPair ==
    /\ resource = [present |-> FALSE, samples |-> 0, tail |-> 0, content |-> "none"]
    /\ batch = <<>>
    /\ stream \in [{1, 2} -> {StreamStart(r) : r \in RandStates}]
    /\ thr = <<>>
    /\ tb = <<>>

PairCallA == SampleStream(1, MaxPairCalls)

PairCallB == SampleStream(2, MaxPairCalls)

NextPair == PairCallA \/ PairCallB

SpecPair == InitPair /\ [][NextPair]_vars

(***************************************************************************)
(* Claims about the streaming build                                        *)
(***************************************************************************)
\* C6: in every call, source i is overwritten with a fresh draw exactly when
\* sample_counter at entry to the refresh loop is a multiple of 2^i, and is
\* left unchanged by the call otherwise.
C6_RefreshCadence ==
    [][\A i \in 0..(N_SOURCES - 1) :
         /\ stream'[1].ctr_at_loop = stream[1].sample_counter
         /\ (i \in stream'[1].refreshed) <=> (stream'[1].ctr_at_loop % (2 ^ i) = 0)
         /\ (i \notin stream'[1].refreshed)
              => stream'[1].noise_sources[i] = stream[1].noise_sources[i]]_vars

\* C6 witness: the call entered with counter 512 refreshed all ten sources,
\* the ninth for the first time since the call entered with counter 0.
C6_Witness ==
    /\ DOMAIN stream = {1}
    /\ stream[1].ctr_at_loop = 512
    /\ stream[1].refreshed = 0..(N_SOURCES - 1)

\* C7: two freshly started processes that have made the same number of calls
\* have returned the same sample and hold the same sources and counter.
C7_Deterministic ==
    (DOMAIN stream = {1, 2} /\ stream[1].calls = stream[2].calls)
        => /\ stream[1].ret = stream[2].ret
           /\ stream[1].noise_sources = stream[2].noise_sources
           /\ stream[1].sample_counter = stream[2].sample_counter

\* C7 witness: both processes, started with the library's generator in
\* different states, have made the same positive number of calls.
C7_Witness ==
    /\ DOMAIN stream = {1, 2}
    /\ stream[1].calls = MaxPairCalls /\ stream[2].calls = MaxPairCalls
    /\ stream[1].n_draws > 2 * N_SOURCES
    /\ stream[1].ret # 0

Abs(x) == IF x < 0 THEN -x ELSE x

\* C8: every source is in [-1, 1], so the sum of the ten sources is in
\* [-10, 10] and every returned sample is within 10 * 0.25 / 1.757.
C8_Range ==
    \A p \in DOMAIN stream :
        /\ \A i \in 0..(N_SOURCES - 1) : Abs(stream[p].noise_sources[i]) <= RAND_MAX
        /\ Abs(stream[p].sum) <= N_SOURCES * RAND_MAX
        /\ stream[p].sum = SumSources(stream[p].noise_sources, N_SOURCES)
        /\ Abs(stream[p].ret) <= N_SOURCES * TARGET_RMS_milli * RAND_MAX

\* C8 witness: after calls a source is above one half and the sample is not 0.
C8_Witness ==
    /\ DOMAIN stream = {1}
    /\ stream[1].calls >= 1
    /\ \E i \in 0..(N_SOURCES - 1) : 2 * stream[1].noise_sources[i] > RAND_MAX
    /\ stream[1].ret # 0

\* C11: seeding and the initial population happen on the first call and on
\* no later one: after any number of calls initialized is set, srand has been
\* called once and sample_counter has never been reset.
C11_SetupOnce ==
    \A p \in DOMAIN stream :
        stream[p].calls >= 1
            => /\ stream[p].initialized = 1
               /\ stream[p].n_srand = 1
               /\ stream[p].sample_counter = stream[p].calls

\* C11 witness: 513 calls made, one seeding.
C11_Witness ==
    /\ DOMAIN stream = {1}
    /\ stream[1].calls = 513 /\ stream[1].n_srand = 1 /\ stream[1].initialized = 1

\* Number of trailing zero bits of c > 0.
RECURSIVE Ctz(_)
Ctz(c) == IF c % 2 = 1 THEN 0 ELSE 1 + Ctz(c \div 2)

\* The sources 0, 1, ..., n-1 in ascending order.
Ascending(n) == [k \in 1..n |-> k - 1]

\* C19: the first call makes 20 draws (10 in init_flicker_noise, then all 10
\* sources again in the refresh loop); a later call entered with counter
\* c > 0 makes 1 + min(ctz(c), 9) draws; draws go to sources in ascending
\* index order.
C19_DrawConsumption ==
    [][LET s == stream[1]
           t == stream'[1]
       IN  IF s.initialized = 0
           THEN /\ t.n_draws - s.n_draws = 2 * N_SOURCES
                /\ t.draw_log = Ascending(N_SOURCES) \o Ascending(N_SOURCES)
                /\ t.refreshed = 0..(N_SOURCES - 1)
           ELSE /\ s.sample_counter > 0
                /\ t.n_draws - s.n_draws = 1 + Min(Ctz(s.sample_counter), N_SOURCES - 1)
                /\ t.draw_log = Ascending(1 + Min(Ctz(s.sample_counter), N_SOURCES - 1))]_vars

\* C19 witness: the call entered with counter 512 made 10 draws, after 20 in
\* the first call.
C19_Witness ==
    /\ DOMAIN stream = {1}
    /\ stream[1].ctr_at_loop = 512
    /\ Len(stream[1].draw_log) = N_SOURCES
    /\ stream[1].n_draws > 2 * N_SOURCES

Max(a, b) == IF a > b THEN a ELSE b

\* C14: once the loader has run, 0 <= num_samples_loaded <= 4096; with the
\* resource absent it is 4096 and the whole buffer is 0.0; otherwise it is
\* min(samples in the resource, 4096) and the buffer starts with that many
\* resource samples.
C14_LoaderOutcome ==
    \A p \in DOMAIN batch :
        batch[p].initialized = 1
            => /\ 0 <= batch[p].num_samples_loaded
               /\ batch[p].num_samples_loaded <= MAX_SAMPLES
               /\ ~resource.present
                    => /\ batch[p].num_samples_loaded = MAX_SAMPLES
                       /\ \A i \in 0..(MAX_SAMPLES - 1) : batch[p].preloaded_noise[i] = 0
               /\ resource.present
                    => /\ batch[p].num_samples_loaded = Min(resource.samples, MAX_SAMPLES)
                       /\ \A i \in 0..(batch[p].num_samples_loaded - 1) :
                            batch[p].preloaded_noise[i] = FileSample(resource.content, i)

\* C14 witness: the loader has run on a resource of 4097 samples and kept 4096.
C14_Witness ==
    /\ DOMAIN batch = {1, 2}
    /\ resource.present /\ resource.samples = MAX_SAMPLES + 1
    /\ batch[2].preloaded /\ batch[2].calls = 0
    /\ batch[2].num_samples_loaded = MAX_SAMPLES

\* C15: under sequential calls every read is at an index in [0, 4096) and
\* after every call 1 <= current_index <= max(1, num_samples_loaded) <= 4096.
C15_IndexInBounds ==
    b1.calls >= 1
        => /\ b1.rd \in 0..(MAX_SAMPLES - 1)
           /\ 1 <= b1.current_index
           /\ b1.current_index <= Max(1, b1.num_samples_loaded)
           /\ Max(1, b1.num_samples_loaded) <= MAX_SAMPLES

\* C15 witness: the 4096th call on a full resource read the last slot and
\* left the index at 4096.
C15_Witness ==
    /\ resource.present /\ resource.samples = MAX_SAMPLES
    /\ b1.calls = MAX_SAMPLES /\ b1.rd = MAX_SAMPLES - 1
    /\ b1.current_index = MAX_SAMPLES

\* C12: after the first sampling call has returned, a later call through
\* either entry point leaves every element of preloaded_noise, and
\* num_samples_loaded and initialized, as they were.
C12_BufferFrozen ==
    [][batch[1].calls >= 1
         => /\ batch'[1].preloaded_noise = batch[1].preloaded_noise
            /\ batch'[1].num_samples_loaded = batch[1].num_samples_loaded
            /\ batch'[1].initialized = batch[1].initialized]_vars

\* C12 witness: a third call made, through the shim, has wrapped a 2-sample
\* resource.
C12_Witness ==
    /\ resource.present /\ resource.samples = 2 /\ resource.tail # 0
    /\ b1.calls = 3 /\ b1.call_count = 1 /\ b1.current_index = 1
    /\ b1.preloaded_noise[2] = PartialElement

\* The k-th value (k >= 1) of the sequence dpi_flicker_noise_batch returns
\* on the resource when called alone (C1, C2, C3; for an empty resource
\* the content of slot 0).
BatchSequence(res, k) ==
    IF ~res.present THEN 0
    ELSE IF res.samples = 0 THEN res.tail
    ELSE FileSample(res.content, (k - 1) % Min(res.samples, MAX_SAMPLES))

\* C18: every call, through the shim or direct, invokes
\* dpi_flicker_noise_batch once and returns the next value of the batch
\* sequence; the index a shim call logs is the index it read.
C18_ShimTransparent ==
    [][LET g == batch[1]
           h == batch'[1]
       IN  /\ h.calls = g.calls + 1
           /\ h.ret = BatchSequence(resource, h.calls)
           /\ h.shim_invocations = h.call_count
           /\ (h.call_count = g.call_count + 1 /\ g.call_count < LOG_CALLS)
                => (h.log_index = h.rd /\ h.log_value = h.ret)]_vars

\* C18 witness: direct and shim calls interleaved, the last one through the
\* shim, which logged the index it read.
C18_Witness ==
    /\ resource.present /\ resource.samples = 100 /\ resource.content = "ramp"
    /\ b1.calls = 7 /\ b1.call_count = 3
    /\ b1.log_index = 6 /\ b1.rd = 6 /\ b1.ret = 7 /\ b1.log_value = 7

(***************************************************************************)
(* Statement-level claims.                                                 *)
(***************************************************************************)
\* The loader has returned to the thread: it is past line 145 of its first
\* call, or it has returned from a call.
LoaderReturned(t) ==
    thr[t].pc \in {"check", "wrap", "read", "incr"} \/ thr[t].ncalls >= 1

\* C13: whenever the resource is opened successfully it is read exactly once
\* and closed exactly once before the first sample is returned, whether the
\* read was full or partial, and no handle is open in any state after the
\* loader has returned: a handle is open only between fopen and fclose, and
\* once the loader has returned there was exactly one fopen, for a resource
\* that exists exactly one fread and one fclose, and nothing is open.
C13_ReadOnceClosedOnce ==
    \A t \in DOMAIN thr :
        /\ thr[t].f = "open" <=> thr[t].pc \in {"fread", "fclose"}
        /\ batch[1].handle_open <=> thr[t].f = "open"
        /\ batch[1].n_fread <= batch[1].n_fopen
        /\ batch[1].n_fclose <= batch[1].n_fread
        /\ LoaderReturned(t) =>
              /\ ~batch[1].handle_open
              /\ batch[1].n_fopen = 1
              /\ batch[1].n_fread = (IF resource.present THEN 1 ELSE 0)
              /\ batch[1].n_fclose = batch[1].n_fread

\* C13 witness: a partial read (100 of 4096 samples) was closed and the first
\* sample has been returned.
C13_Witness ==
    /\ resource.present /\ resource.samples = 100
    /\ thr[1].ncalls >= 1 /\ batch[1].rd = 0
    /\ batch[1].num_samples_loaded = 100
    /\ batch[1].n_fread = 1 /\ batch[1].n_fclose = 1 /\ ~batch[1].handle_open

\* C16: the batch generator is not safe under concurrent invocation.  With
\* two unsynchronised threads a read at an index >= num_samples_loaded (of a
\* resource that holds samples) is made only by a thread whose wrap test was
\* overtaken by a write of current_index from the other thread, it is at
\* most one slot past the end of the buffer, and the loader runs at most
\* once per thread; C16_Witness shows that both the read past the end and
\* the second load are reached.
C16_UnsafeOnlyByInterleaving ==
    /\ \A t \in DOMAIN thr :
          /\ thr[t].idx <= MAX_SAMPLES
          /\ (thr[t].pc = "incr" /\ batch[1].num_samples_loaded > 0
                /\ thr[t].idx >= batch[1].num_samples_loaded)
             => thr[t].stall > 0
    /\ batch[1].n_fopen <= Cardinality(DOMAIN thr)
    /\ batch[1].n_fread <= batch[1].n_fopen

\* C16 witness: 4096 samples are loaded, the loader has run twice, and a
\* thread has read preloaded_noise[4096], one slot past the end.
C16_Witness ==
    /\ resource.samples = MAX_SAMPLES
    /\ batch[1].num_samples_loaded = MAX_SAMPLES
    /\ batch[1].n_fopen = 2 /\ batch[1].n_fread = 2
    /\ batch[1].rd = MAX_SAMPLES /\ batch[1].rd_loaded = MAX_SAMPLES
    /\ \E t \in DOMAIN thr : thr[t].pc = "incr" /\ thr[t].idx = MAX_SAMPLES

\* The counter of NearWrap after c calls: 2^w - WrapLead + c modulo 2^w, as
\* 1 + n limbs.
CounterAfter(c, n) ==
    IF c < WrapLead
    THEN <<LimbModulus - WrapLead + c>> \o [k \in 1..n |-> LimbModulus - 1]
    ELSE <<c - WrapLead>> \o [k \in 1..n |-> 0]

\* C17: sample_counter increases by exactly 1 on every call, modulo 2^w for
\* the width w of unsigned long, and the wrap leaves the refresh cadence
\* alone: the call made c calls after the start of NearWrap enters with the
\* counter 2^w - WrapLead + c modulo 2^w and leaves it one higher, and it
\* refreshes source i exactly when c - WrapLead is a multiple of 2^i, so once
\* every 2^i calls before, at and after the wrap.
C17_CounterWraps ==
    [][LET s == stream[1]
           t == stream'[1]
           n == Len(s.sample_counter_hi)
       IN  /\ <<s.sample_counter>> \o s.sample_counter_hi = CounterAfter(s.calls, n)
           /\ <<t.sample_counter>> \o t.sample_counter_hi = CounterAfter(s.calls + 1, n)
           /\ t.ctr_at_loop = s.sample_counter
           /\ \A i \in 0..(N_SOURCES - 1) :
                 (i \in t.refreshed) <=> ((s.calls - WrapLead) % (2 ^ i) = 0)]_vars

\* C17 witness: a 64-bit counter went from 2^64 - 1 to 0, and the call made
\* with the counter 0 refreshed all ten sources and left the counter at 1.
C17_Witness ==
    /\ DOMAIN stream = {1}
    /\ Len(stream[1].sample_counter_hi) = HighLimbs(ULONG_BITS)
    /\ stream[1].calls = WrapLead + 1
    /\ stream[1].ctr_at_loop = 0
    /\ stream[1].refreshed = 0..(N_SOURCES - 1)
    /\ stream[1].sample_counter = 1
    /\ \A k \in DOMAIN stream[1].sample_counter_hi : stream[1].sample_counter_hi[k] = 0

(***************************************************************************)
(* Simulation driver: main of tb_wrapper.cpp, statement by statement.      *)
(* tb is the driver's state: its position pc, sim_time, the finish flag of *)
(* the simulation library and, as a log, the numbers of eval and final     *)
(* calls and whether the model has been deleted.  eval and final are the   *)
(* generated model's code, which the repository only calls: eval returns   *)
(* and may have set the finish flag.                                       *)
(***************************************************************************)
max_sim_time == 100000

\* lines 16-28: the model is created, sim_time = 0
TbStart ==
    [pc |-> "while", sim_time |-> 0, gotFinish |-> FALSE,
     n_eval |-> 0, n_final |-> 0, deleted |-> FALSE, exit_code |-> -1]

InitMain ==
    /\ resource = [present |-> FALSE, samples |-> 0, tail |-> 0, content |-> "none"]
    /\ batch = <<>>
    /\ stream = <<>>
    /\ thr = <<>>
    /\ tb = TbStart

\* Mutant: the loop test is sim_time <= max_sim_time.
While_le ==
    /\ tb.pc = "while"
    /\ tb' = [tb EXCEPT !.pc = IF ~tb.gotFinish /\ tb.sim_time <= max_sim_time
                               THEN "eval" ELSE "final"]
    /\ UNCHANGED <<resource, batch, stream, thr>>

\* line 31: while (!Verilated::gotFinish() && sim_time < max_sim_time)
While ==
    /\ tb.pc = "while"
    /\ tb' = [tb EXCEPT !.pc = IF ~tb.gotFinish /\ tb.sim_time < max_sim_time
                               THEN "eval" ELSE "final"]
    /\ UNCHANGED <<resource, batch, stream, thr>>

\* line 33: tb->eval(); the model may execute $finish
Eval ==
    /\ tb.pc = "eval"
    /\ \E fin \in BOOLEAN :
          tb' = [tb EXCEPT !.pc = "incr", !.n_eval = @ + 1,
                           !.gotFinish = @ \/ fin]
    /\ UNCHANGED <<resource, batch, stream, thr>>

\* line 41: sim_time++
SimTimeIncr ==
    /\ tb.pc = "incr"
    /\ tb' = [tb EXCEPT !.pc = "while", !.sim_time = @ + 1]
    /\ UNCHANGED <<resource, batch, stream, thr>>

\* line 45: tb->final()
Final ==
    /\ tb.pc = "final"
    /\ tb' = [tb EXCEPT !.pc = "delete", !.n_final = @ + 1]
    /\ UNCHANGED <<resource, batch, stream, thr>>

\* line 56: delete tb
DeleteTb ==
    /\ tb.pc = "delete"
    /\ tb' = [tb EXCEPT !.pc = "return", !.deleted = TRUE]
    /\ UNCHANGED <<resource, batch, stream, thr>>

\* line 58: return 0
Return ==
    /\ tb.pc = "return"
    /\ tb' = [tb EXCEPT !.pc = "done", !.exit_code = 0]
    /\ UNCHANGED <<resource, batch, stream, thr>>

NextMain ==
    \/ While
    \/ Eval
    \/ SimTimeIncr
    \/ Final
    \/ DeleteTb
    \/ Return

\* main is one thread that runs whenever it can take a step.
SpecMain == InitMain /\ [][NextMain]_vars /\ WF_vars(NextMain)

\* The driver's counts and positions agree: eval has run sim_time times (one
\* more between eval and the increment), at most max_sim_time times; the
\* loop body is entered only with the flag clear and sim_time below the
\* limit and left for good only with the flag set or the limit reached;
\* final has run exactly once from the delete on and not before, and the
\* model is deleted only after it.
MainSafe ==
    /\ tb.sim_time <= max_sim_time /\ tb.n_eval <= max_sim_time
    /\ tb.n_eval = tb.sim_time + (IF tb.pc = "incr" THEN 1 ELSE 0)
    /\ tb.pc = "eval" => ~tb.gotFinish /\ tb.sim_time < max_sim_time
    /\ tb.pc \in {"final", "delete", "return", "done"}
          => tb.gotFinish \/ tb.sim_time = max_sim_time
    /\ tb.n_final = (IF tb.pc \in {"delete", "return", "done"} THEN 1 ELSE 0)
    /\ tb.deleted <=> tb.pc \in {"return", "done"}

\* Every step: sim_time grows by exactly 1 with each completed iteration and
\* never otherwise, eval runs only before final, and final only before the
\* delete.
MainStep ==
    /\ tb'.sim_time = tb.sim_time + (IF tb.pc = "incr" THEN 1 ELSE 0)
    /\ tb'.n_eval # tb.n_eval => tb.n_final = 0 /\ ~tb.deleted
    /\ tb'.n_final # tb.n_final => ~tb.deleted /\ tb'.n_eval = tb.n_eval

\* C20: main always terminates; eval is invoked at most 100000 times (the
\* loop exits as soon as the finish flag is set or sim_time reaches 100000,
\* with sim_time increasing by exactly 1 per iteration), and final is invoked
\* exactly once, after the last eval and before the model is deleted.
C20_DriverTerminates ==
    /\ []MainSafe
    /\ [][MainStep]_vars
    /\ <>(tb.pc = "done" /\ tb.n_final = 1 /\ tb.deleted /\ tb.exit_code = 0)

\* C20 witness: the finish flag was never set, eval ran 100000 times, then
\* final once, the model was deleted and main returned 0.
C20_Witness ==
    /\ tb # <<>>
    /\ tb.pc = "done" /\ ~tb.gotFinish
    /\ tb.n_eval = max_sim_time /\ tb.sim_time = max_sim_time
    /\ tb.n_final = 1 /\ tb.deleted /\ tb.exit_code = 0

(***************************************************************************)
(* The shim's call counter                                                 *)
(***************************************************************************)
\* C21 (as claimed): the per-call diagnostic line of the shim is emitted for
\* exactly the first 30 calls of the shim and for no later call, for any
\* number of calls, also past the range of the int call counter: the number
\* of lines emitted is the number of shim calls, up to 30.
C21_LogFirst30Only ==
    batch[1].n_call_log = Min(batch[1].shim_invocations, LOG_CALLS)

====
